---------------------------- MODULE Spec2Model ----------------------------
(***************************************************************************)
(* Model of get_ashtonwoods_community.py: the Ashton Woods community       *)
(* scraper.  Python text is modelled as a sequence of one-character        *)
(* strings, so that strip/split/join/float/int are computed and not        *)
(* assumed; URLs and price texts are sequences of their pieces (scheme and *)
(* host, path, query), and a coordinate is a one-piece sequence.  Python's *)
(* None is the one-element sequence <<"None">>, which is no text (its      *)
(* element is not a character); a raised exception is the one-element      *)
(* sequence naming it.                                                     *)
(***************************************************************************)
EXTENDS Integers, Sequences, FiniteSets, TLC

VARIABLES
    pc,          \* position of the running call: "call" before, "done" after
    addrIn,      \* parse_address: the Sales Office part of the page
    addrOut,     \* parse_address: the returned address_info
    rangeIn,     \* get_range_from_values: the values argument
    rangeOut,    \* get_range_from_values: the returned text, None or the exception
    detail,      \* get_homesite_images: the detail page and how the browser answers
    imgOut,      \* get_homesite_images: the returned list and the browser calls made
    cards,       \* parse_homeplans / parse_homesites: the cards of the two panels
    homeplans,   \* the list returned by parse_homeplans
    homesites,   \* the list returned by parse_homesites
    trace,       \* browser and geocoder calls made by parse_homesites, in order
    args,        \* main: the command line and the state of ashtonwoods_links.json
    driver,      \* main: the browser session: "unbound", "up" or "quit"
    todo,        \* main: the URLs to process, in order
    next,        \* main: position of the next URL in todo
    json_files,  \* data/ashtonwoods/json: community name -> record, or Missing
    html_files,  \* data/ashtonwoods/html: community name -> snapshot, or Missing
    loads,       \* number of pages the browser was asked to load (driver.get)
    served,      \* the community page the browser served for the last URL
    runs,        \* the calls of process_community_url so far: URL and outcome
    textIn,      \* clean_text: the text argument
    textOut      \* clean_text: the returned text or None

addrVars  == <<addrIn, addrOut>>
rangeVars == <<rangeIn, rangeOut>>
imgVars   == <<detail, imgOut>>
cardVars  == <<cards, homeplans, homesites, trace>>
mainVars  == <<args, driver, todo, next, json_files, html_files, loads, served, runs>>
textVars  == <<textIn, textOut>>
vars == <<pc, addrVars, rangeVars, imgVars, cardVars, mainVars, textVars>>

---------------------------------------------------------------------------
(* Bounds of the model *)

MaxLine == 6     \* characters in the second line of the Sales Office block
MaxVals == 3     \* values handed to get_range_from_values
MaxElems == 2    \* freely chosen elements of a detail page
MaxCards == 2    \* cards in a panel
MaxUrls == 2     \* URLs in ashtonwoods_links.json
MaxText == 3     \* characters in the text handed to clean_text

---------------------------------------------------------------------------
(* Python values *)

None == <<"None">>
ValueError == <<"ValueError">>

Whitespace == {" ", "\n"}

\* All texts over alphabet A of length lo..hi
TextsOver(A, lo, hi) == UNION {[1..n -> A] : n \in lo..hi}

RECURSIVE LStrip(_)
LStrip(s) == IF s # <<>> /\ Head(s) \in Whitespace THEN LStrip(Tail(s)) ELSE s

RECURSIVE RStrip(_)
RStrip(s) ==
    IF s # <<>> /\ s[Len(s)] \in Whitespace
    THEN RStrip(SubSeq(s, 1, Len(s) - 1))
    ELSE s

\* str.strip()
Strip(s) == RStrip(LStrip(s))

\* str.split(sep) for a one-character sep: empty parts are kept
RECURSIVE SplitFrom(_, _, _, _)
SplitFrom(s, seps, i, cur) ==
    IF i > Len(s) THEN <<cur>>
    ELSE IF s[i] \in seps THEN <<cur>> \o SplitFrom(s, seps, i + 1, <<>>)
    ELSE SplitFrom(s, seps, i + 1, Append(cur, s[i]))

SplitOn(s, sep) == SplitFrom(s, {sep}, 1, <<>>)

\* str.split() with no argument: split on whitespace runs, no empty parts
SplitWs(s) == SelectSeq(SplitFrom(s, Whitespace, 1, <<>>), LAMBDA p : p # <<>>)

\* sep.join(parts)
RECURSIVE Join(_, _)
Join(parts, sep) ==
    IF parts = <<>> THEN <<>>
    ELSE IF Len(parts) = 1 THEN parts[1]
    ELSE parts[1] \o sep \o Join(Tail(parts), sep)

\* bool(text) for a text or None
Truthy(text) == text # None /\ text # <<>>

clean_text(text) ==
    IF ~Truthy(text) THEN None
    ELSE Join(SplitWs(Strip(text)), <<" ">>)

\* The texts clean_text is called with: element texts, or None
TextAlphabet == {" ", "\n", "a", "b"}
CleanInputs == {None} \cup TextsOver(TextAlphabet, 0, MaxText)

---------------------------------------------------------------------------
(* parse_address *)

Street == <<"1", " ", "M">>
Market == <<"P", "h", "x">>

default_address ==
    [full_address |-> <<>>, city |-> <<>>, state |-> <<>>, market |-> Market]

\* The default with the city already filled in: a partial address
parse_address_partial(soup) ==
    IF soup.content_div /\ soup.sales_office /\ soup.sibling
       /\ Len(soup.address_parts) >= 2
       /\ Len(SplitOn(soup.address_parts[2], ",")) >= 2
    THEN LET city_state_zip == SplitOn(soup.address_parts[2], ",")
             city == Strip(city_state_zip[1])
             state_zip == SplitWs(Strip(city_state_zip[2]))
         IN  IF Len(state_zip) >= 2
             THEN [full_address |->
                       soup.address_parts[1] \o <<",", " ">> \o city \o <<",", " ">>
                       \o state_zip[1] \o <<" ">> \o state_zip[2],
                   city |-> city, state |-> state_zip[1], market |-> Market]
             ELSE [default_address EXCEPT !.city = city,
                                          !.full_address = soup.address_parts[1]]
    ELSE default_address

parse_address(soup) ==
    IF soup.content_div /\ soup.sales_office /\ soup.sibling
    THEN LET address_parts == soup.address_parts
         IN  IF Len(address_parts) >= 2
             THEN LET street == address_parts[1]
                      city_state_zip == SplitOn(address_parts[2], ",")
                  IN  IF Len(city_state_zip) >= 2
                      THEN LET city == Strip(city_state_zip[1])
                               state_zip == SplitWs(Strip(city_state_zip[2]))
                           IN  IF Len(state_zip) >= 2
                               THEN LET state == state_zip[1]
                                        zip_code == state_zip[2]
                                    IN  [full_address |->
                                             street \o <<",", " ">> \o city
                                             \o <<",", " ">> \o state
                                             \o <<" ">> \o zip_code,
                                         city |-> city,
                                         state |-> state,
                                         market |-> Market]
                               ELSE default_address
                      ELSE default_address
             ELSE default_address
    ELSE default_address

NoAddrSoup ==
    [content_div |-> FALSE, sales_office |-> FALSE, sibling |-> FALSE,
     address_parts |-> <<>>]

\* stripped_strings yields the non-empty stripped text lines of the paragraph
AddrAlphabet == {"a", ",", " "}
StrippedLines == {s \in TextsOver(AddrAlphabet, 1, MaxLine) : Strip(s) = s}

AddrSoups ==
    LET shapes == {<<>>, <<Street>>}
                  \cup {<<Street, l>> : l \in StrippedLines}
                  \cup {<<Street, l, <<"a">> >> : l \in {<<"a", ",", "a", " ", "a">>, <<"a">>}}
    IN  {[content_div |-> TRUE, sales_office |-> TRUE, sibling |-> TRUE,
          address_parts |-> p] : p \in shapes}
        \cup {[content_div |-> c, sales_office |-> l, sibling |-> s,
               address_parts |-> p] :
                 c \in BOOLEAN, l \in BOOLEAN, s \in BOOLEAN,
                 p \in {<<>>, <<Street, <<"a", ",", "a", " ", "a">> >>}}

---------------------------------------------------------------------------
(* get_range_from_values *)

Digits == <<"0", "1", "2", "3", "4", "5", "6", "7", "8", "9">>
DigitSet == {Digits[i] : i \in 1..10}
DigitVal(c) == (CHOOSE i \in 1..10 : Digits[i] = c) - 1

RECURSIVE DigitsVal(_)
DigitsVal(s) ==
    IF s = <<>> THEN 0 ELSE 10 * DigitsVal(SubSeq(s, 1, Len(s) - 1)) + DigitVal(s[Len(s)])

AllDigits(s) == \A i \in 1..Len(s) : s[i] \in DigitSet

\* float(v) succeeds: digits, optionally with one decimal point
Convertible(v) ==
    LET parts == SplitOn(v, ".")
    IN  /\ Len(parts) \in {1, 2}
        /\ \A i \in 1..Len(parts) : AllDigits(parts[i])
        /\ \E i \in 1..Len(parts) : parts[i] # <<>>

\* float(v) in tenths (the values of the model carry at most one decimal)
Tenths(v) ==
    LET parts == SplitOn(v, ".")
        frac == IF Len(parts) = 2 /\ parts[2] # <<>> THEN DigitVal(parts[2][1]) ELSE 0
    IN  10 * DigitsVal(parts[1]) + frac

\* str(n) for n >= 0
RECURSIVE IntToText(_)
IntToText(n) ==
    IF n < 10 THEN <<Digits[n + 1]>>
    ELSE Append(IntToText(n \div 10), Digits[(n % 10) + 1])

\* int(x) of a non-negative float held in tenths
IntOf(tenths) == tenths \div 10

SeqMin(s) == CHOOSE x \in {s[i] : i \in 1..Len(s)} : \A j \in 1..Len(s) : x <= s[j]
SeqMax(s) == CHOOSE x \in {s[i] : i \in 1..Len(s)} : \A j \in 1..Len(s) : x >= s[j]

RECURSIVE MapTenths(_)
MapTenths(s) == IF s = <<>> THEN <<>> ELSE <<Tenths(Head(s))>> \o MapTenths(Tail(s))

get_range_from_values(values) ==
    IF values = <<>> THEN None
    ELSE LET kept == SelectSeq(values, LAMBDA v : v # None)
         IN  IF \E i \in 1..Len(kept) : ~Convertible(kept[i]) THEN ValueError
             ELSE IF kept = <<>> THEN None
             ELSE LET nums == MapTenths(kept)
                      min_val == SeqMin(nums)
                      max_val == SeqMax(nums)
                  IN  IF min_val = max_val THEN IntToText(IntOf(min_val))
                      ELSE IntToText(IntOf(min_val)) \o <<" ", "-", " ">>
                           \o IntToText(IntOf(max_val))

RangeValues ==
    {None, <<"2">>, <<"3">>, <<"1", "0">>, <<"2", ".", "5">>, <<"3", "x">>}
RangeInputs == UNION {[1..n -> RangeValues] : n \in 0..MaxVals}

---------------------------------------------------------------------------
(* get_homesite_images *)

\* A URL is the sequence of its pieces: the host's pieces, then "/" and the
\* pieces of path and query.  `x in url` holds when x is one of the pieces.
Contains(url, piece) == \E i \in 1..Len(url) : url[i] = piece

\* The pieces before the first "/"
RECURSIVE HostOf(_)
HostOf(url) ==
    IF url = <<>> \/ Head(url) = "/" THEN <<>> ELSE <<Head(url)>> \o HostOf(Tail(url))

ImgSite   == <<"www.", "ashtonwoods.com", "/", "a.jpg">>
ImgWiden  == <<"aw.", "widen.net", "/", "b.jpg">>
ImgBiz    == <<"cdn.", "bizible.com", "/", "t.gif", "?", "ashtonwoods.com">>
ImgMarvel == <<"marvel-b1-cdn", ".bc0a.com", "/", "ashtonwoods.com", "/", "m.js">>
ImgPixel  == <<"www.", "facebook.com", "/", "tr", "?", "ashtonwoods.com">>
ImgOther  == <<"cdn.", "example.com", "/", "c.jpg">>
ImgUrls   == {ImgSite, ImgWiden, ImgBiz, ImgMarvel, ImgPixel, ImgOther}

\* The n-th picture of a long gallery
GalleryUrl(n) == <<"www.", "ashtonwoods.com", "/", "g">> \o IntToText(n)

MaxImages == 12

Markers == <<"gallery-modal__item", "image-content__slider-container", "col-12">>

is_valid_image_url(url) ==
    IF ~Truthy(url) THEN FALSE
    ELSE IF Contains(url, "bizible.com") \/ Contains(url, "marvel-b1-cdn") THEN FALSE
    ELSE IF ~(Contains(url, "ashtonwoods.com") \/ Contains(url, "widen.net")) THEN FALSE
    ELSE TRUE

InSeq(x, s) == \E i \in 1..Len(s) : s[i] = x

\* if is_valid_image_url(img_url) and img_url not in images: images.append(img_url)
AddImage(images, img_url) ==
    IF is_valid_image_url(img_url) /\ ~InSeq(img_url, images)
    THEN Append(images, img_url)
    ELSE images

\* The loop over the gallery-modal__item elements
RECURSIVE GalleryPass(_, _)
GalleryPass(elems, images) ==
    IF elems = <<>> THEN images
    ELSE GalleryPass(Tail(elems),
                     IF Head(elems).gallery
                     THEN AddImage(images, Head(elems).desktop)
                     ELSE images)

\* The loop over every div and img: data-desktop-image, src, background-image
RECURSIVE ContentPass(_, _)
ContentPass(elems, images) ==
    IF elems = <<>> THEN images
    ELSE LET e == Head(elems)
             i1 == AddImage(images, e.desktop)
             i2 == AddImage(i1, e.src)
             i3 == IF e.style # None THEN AddImage(i2, e.style) ELSE i2
         IN  ContentPass(Tail(elems), i3)

\* The readiness waits made, in order: each one only after the one before raised
WaitsTried(present) ==
    IF Markers[1] \in present THEN <<Markers[1]>>
    ELSE IF Markers[2] \in present THEN <<Markers[1], Markers[2]>>
    ELSE <<Markers[1], Markers[2], Markers[3]>>

\* Reads the page even when every readiness wait timed out
get_homesite_images_unready(page) ==
    IF ~page.nav_ok
    THEN [images |-> <<>>, calls |-> <<"get">>]
    ELSE LET found == GalleryPass(page.elems, <<>>)
             images == IF found = <<>> THEN ContentPass(page.elems, <<>>) ELSE found
         IN  [images |-> SubSeq(images, 1, IF Len(images) < MaxImages
                                           THEN Len(images) ELSE MaxImages),
              calls |-> <<"get">> \o WaitsTried(page.present)]

get_homesite_images(page) ==
    IF ~page.nav_ok
    THEN [images |-> <<>>, calls |-> <<"get">>]
    ELSE LET calls == <<"get">> \o WaitsTried(page.present)
         IN  IF page.present = {}
             THEN [images |-> <<>>, calls |-> calls]
             ELSE LET found == GalleryPass(page.elems, <<>>)
                      images == IF found = <<>>
                                THEN ContentPass(page.elems, <<>>)
                                ELSE found
                  IN  [images |-> SubSeq(images, 1, IF Len(images) < MaxImages
                                                    THEN Len(images) ELSE MaxImages),
                       calls |-> calls]

Elem(g, d, s, st) == [gallery |-> g, desktop |-> d, src |-> s, style |-> st]

\* The elements a detail page is built from
Elems ==
    {Elem(TRUE, d, None, None) : d \in ImgUrls \cup {None}}
    \cup {Elem(FALSE, d, None, None) : d \in {ImgSite, ImgPixel}}
    \cup {Elem(FALSE, None, s, None) : s \in ImgUrls \ {ImgPixel}}
    \cup {Elem(FALSE, None, None, st) : st \in {ImgWiden, <<>>}}
    \cup {Elem(FALSE, ImgSite, ImgWiden, ImgSite)}

\* A run of n elements with n different valid URLs
LongRun(g, n) ==
    [i \in 1..n |-> IF g THEN Elem(TRUE, GalleryUrl(i), None, None)
                         ELSE Elem(FALSE, None, GalleryUrl(i), None)]

DetailPages ==
    LET free == UNION {[1..n -> Elems] : n \in 0..MaxElems}
        long == {<<>>, LongRun(TRUE, MaxImages + 1), LongRun(FALSE, MaxImages + 1)}
    IN  {[nav_ok |-> TRUE, present |-> p, elems |-> f \o r] :
             p \in SUBSET {Markers[i] : i \in 1..3}, f \in free, r \in long}
        \cup {[nav_ok |-> FALSE, present |-> {}, elems |-> <<>>]}

---------------------------------------------------------------------------
(* get_coordinates *)

\* A float is held as the one piece of its printed text
FallbackLat == <<"33.3539">>
FallbackLon == <<"-112.1597">>
Zero == <<"0.0">>

\* bool(x) of a float or None
FloatTruthy(x) == x # None /\ x # Zero

\* geo is what Nominatim does with this address: "found" (a location),
\* "absent" (geocode returns None), "timeout" (GeocoderTimedOut) or "error"
get_coordinates(address, geo) ==
    IF geo.kind = "found"
    THEN [lat |-> geo.lat, lon |-> geo.lon, calls |-> <<"geocode", "sleep">>]
    ELSE IF geo.kind = "absent"
    THEN [lat |-> None, lon |-> None, calls |-> <<"geocode", "sleep">>]
    ELSE [lat |-> None, lon |-> None, calls |-> <<"geocode">>]

GeoOutcomes ==
    {[kind |-> "found", lat |-> <<"33.4">>, lon |-> <<"-112.2">>],
     [kind |-> "found", lat |-> Zero, lon |-> <<"-112.2">>],
     [kind |-> "absent", lat |-> None, lon |-> None],
     [kind |-> "timeout", lat |-> None, lon |-> None],
     [kind |-> "error", lat |-> None, lon |-> None]}

---------------------------------------------------------------------------
(* The cards of the home-plans and quick-move-ins panels *)

Base == <<"https://", "www.", "ashtonwoods.com">>

\* A feature list item: which marker its text holds ("Beds", "Baths",
\* "sq. ft.", none: "other"; "empty" when it has no text), the first token
\* of the text and whether a "| ... Half" part follows
Li(k, f, h) == [kind |-> k, first |-> f, half |-> h]

RemoveCommas(t) == SelectSeq(t, LAMBDA c : c # ",")

\* The loop over the items: the beds, baths and sqft read so far, or the
\* exception raised ('Beds' in None: TypeError; split()[0] of nothing: IndexError)
RECURSIVE ParseFeatures(_, _)
ParseFeatures(items, got) ==
    IF items = <<>> THEN got
    ELSE LET li == Head(items)
         IN  IF li.kind = "empty" THEN [got EXCEPT !.raised = TRUE]
             ELSE IF li.kind = "Beds"
             THEN ParseFeatures(Tail(items), [got EXCEPT !.beds = li.first])
             ELSE IF li.kind = "Baths"
             THEN IF li.first = <<>> THEN [got EXCEPT !.raised = TRUE]
                  ELSE ParseFeatures(Tail(items),
                           [got EXCEPT !.baths = IF li.half
                                                 THEN li.first \o <<".", "5">>
                                                 ELSE li.first])
             ELSE IF li.kind = "sq. ft."
             THEN ParseFeatures(Tail(items), [got EXCEPT !.sqft = RemoveCommas(li.first)])
             ELSE ParseFeatures(Tail(items), got)

NoFeatures == [raised |-> FALSE, beds |-> None, baths |-> None, sqft |-> None]

\* Appends every card that did not raise, named or not
PlanOfCardKeepAll(plan) ==
    IF plan.title = "nohref" THEN <<>>
    ELSE LET f == ParseFeatures(plan.features, NoFeatures)
         IN  IF f.raised THEN <<>>
             ELSE <<[name |-> IF plan.title = "a" THEN clean_text(plan.text) ELSE None,
                     url |-> IF plan.title = "a" THEN Base \o plan.href ELSE None,
                     details |-> [beds |-> f.beds, baths |-> f.baths, sqft |-> f.sqft,
                                  status |-> "Actively selling",
                                  image_url |-> plan.image]]>>

\* One plan card: the plan_data to append, or nothing when the card raised
\* or lacks name or url
PlanOfCard(plan) ==
    IF plan.title = "nohref" THEN <<>>
    ELSE LET name == IF plan.title = "a" THEN clean_text(plan.text) ELSE None
             url == IF plan.title = "a" THEN Base \o plan.href ELSE None
             f == ParseFeatures(plan.features, NoFeatures)
         IN  IF f.raised THEN <<>>
             ELSE IF Truthy(name) /\ Truthy(url)
             THEN <<[name |-> name, url |-> url,
                     details |-> [beds |-> f.beds, baths |-> f.baths, sqft |-> f.sqft,
                                  status |-> "Actively selling",
                                  image_url |-> plan.image]]>>
             ELSE <<>>

RECURSIVE parse_homeplans(_)
parse_homeplans(plan_elements) ==
    IF plan_elements = <<>> THEN <<>>
    ELSE PlanOfCard(Head(plan_elements)) \o parse_homeplans(Tail(plan_elements))

\* str.upper() and str.capitalize() of the pieces the slugs are made of
Lower == <<"lot", "584", "5510", "w", "paseo", "way", "jade", "plan", "x">>
Upper == <<"LOT", "584", "5510", "W", "PASEO", "WAY", "JADE", "PLAN", "X">>
Capital == <<"Lot", "584", "5510", "W", "Paseo", "Way", "Jade", "Plan", "X">>
IndexOf(p) == CHOOSE i \in 1..Len(Lower) : Lower[i] = p
UpperOf(tok) == [i \in 1..Len(tok) |-> Upper[IndexOf(tok[i])]]
CapitalOf(tok) == [i \in 1..Len(tok) |-> Capital[IndexOf(tok[i])]]

RECURSIVE MapCapital(_)
MapCapital(toks) ==
    IF toks = <<>> THEN <<>> ELSE <<CapitalOf(Head(toks))>> \o MapCapital(Tail(toks))

Last(s) == s[Len(s)]

\* url.split('/')[-1].split('-')
SlugTokens(url) == SplitOn(Last(SplitOn(url, "/")), "-")

Tag(idx, calls) == [i \in 1..Len(calls) |-> [card |-> idx, call |-> calls[i]]]

\* One pass of the loop body for the idx-th card: whether home_data is
\* appended, home_data, and the browser and geocoder calls made
HomeOfCard(home, idx) ==
    IF home.title = "nohref" THEN [emit |-> FALSE, calls |-> <<>>, data |-> <<>>]
    ELSE IF home.title = "none"
    THEN [emit |-> FALSE, calls |-> <<>>, data |-> <<>>]
    ELSE LET url == Base \o home.href
             img == get_homesite_images(home.detail)
             address_parts == SlugTokens(url)
             has_address == Len(address_parts) >= 4
             street_number == address_parts[3]
             street_direction == UpperOf(address_parts[4])
             street_name == Join(MapCapital(SubSeq(address_parts, 5,
                                                  Len(address_parts) - 1)), <<" ">>)
             street == street_number \o <<" ">> \o street_direction \o <<" ">>
                       \o street_name
             address == street \o <<", Laveen, AZ 85339">>
             name_without_zip == street \o <<", Laveen, AZ">>
             geo == get_coordinates(address, home.geo)
             located == FloatTruthy(geo.lat) /\ FloatTruthy(geo.lon)
             f == ParseFeatures(home.features, NoFeatures)
             name == IF has_address THEN name_without_zip ELSE None
         IN  [emit |-> ~f.raised /\ Truthy(name) /\ Truthy(url),
              calls |-> Tag(idx, img.calls \o (IF has_address THEN geo.calls ELSE <<>>)),
              data |->
                [name |-> name,
                 plan |-> clean_text(home.text),
                 id |-> IntToText(idx),
                 address |-> IF has_address THEN address ELSE None,
                 beds |-> f.beds, baths |-> f.baths, sqft |-> f.sqft,
                 status |-> "Move-in Ready",
                 image_url |-> IF img.images # <<>> THEN img.images[1] ELSE None,
                 url |-> url,
                 latitude |-> IF ~has_address THEN None
                              ELSE IF located THEN geo.lat ELSE FallbackLat,
                 longitude |-> IF ~has_address THEN None
                               ELSE IF located THEN geo.lon ELSE FallbackLon,
                 images |-> img.images]]

\* The loop of parse_homesites from the idx-th card on
RECURSIVE HomesFrom(_, _)
HomesFrom(home_elements, idx) ==
    IF idx > Len(home_elements) THEN [homesites |-> <<>>, calls |-> <<>>]
    ELSE LET one == HomeOfCard(home_elements[idx], idx)
             rest == HomesFrom(home_elements, idx + 1)
         IN  [homesites |-> (IF one.emit THEN <<one.data>> ELSE <<>>) \o rest.homesites,
              calls |-> one.calls \o rest.calls]

parse_homesites(home_elements) == HomesFrom(home_elements, 1)

\* The cards the panels are built from
FeatureLists ==
    {<<Li("Beds", <<"3">>, FALSE), Li("Baths", <<"2">>, TRUE),
       Li("sq. ft.", <<"1", ",", "8", "0", "0">>, FALSE)>>,
     <<Li("Beds", <<"3">>, FALSE), Li("empty", <<>>, FALSE)>>}

PlanCards ==
    {[title |-> "none", text |-> <<>>, href |-> <<>>, image |-> None, features |-> f] :
         f \in FeatureLists}
    \cup {[title |-> "nohref", text |-> <<"J">>, href |-> <<>>, image |-> None,
           features |-> <<>>]}
    \cup {[title |-> "a", text |-> t, href |-> <<"/", "plan", "-", "jade">>,
           image |-> i, features |-> f] :
             t \in {<<>>, <<" ">>, <<"J">>, <<" ", "J", " ", " ", "2">>},
             i \in {None, ImgSite}, f \in FeatureLists}

ShortSlug == <<"/", "phoenix", "/", "plan", "-", "jade", "-", "x">>
LongSlug  == <<"/", "phoenix", "/", "lot", "-", "584", "-", "5510", "-", "w", "-",
               "paseo", "-", "way", "-", "jade">>

NoDetail == [nav_ok |-> FALSE, present |-> {}, elems |-> <<>>]

CardDetails ==
    {NoDetail,
     [nav_ok |-> TRUE, present |-> {}, elems |-> <<Elem(FALSE, None, ImgSite, None)>>],
     [nav_ok |-> TRUE, present |-> {Markers[1]},
      elems |-> <<Elem(TRUE, ImgSite, None, None), Elem(TRUE, ImgWiden, None, None)>>],
     [nav_ok |-> TRUE, present |-> {Markers[3]},
      elems |-> <<Elem(FALSE, None, ImgSite, None)>>]}

NoGeo == [kind |-> "absent", lat |-> None, lon |-> None]

HomeCards ==
    {[title |-> "none", text |-> <<>>, href |-> <<>>, detail |-> NoDetail,
      geo |-> NoGeo, features |-> f] : f \in FeatureLists}
    \cup {[title |-> "nohref", text |-> <<"J">>, href |-> <<>>, detail |-> NoDetail,
           geo |-> NoGeo, features |-> <<>>]}
    \cup {[title |-> "a", text |-> <<"J">>, href |-> ShortSlug, detail |-> d,
           geo |-> NoGeo, features |-> f] : d \in CardDetails, f \in FeatureLists}
    \cup {[title |-> "a", text |-> <<"J">>, href |-> LongSlug, detail |-> d,
           geo |-> g, features |-> f] :
             d \in CardDetails, g \in GeoOutcomes, f \in FeatureLists}

CardLists(S) == UNION {[1..n -> S] : n \in 0..MaxCards}

---------------------------------------------------------------------------
(* parse_community_data *)

\* A text is here the sequence of its pieces; the prices are the pieces
\* that match \$[\d,]+K?
PriceTokens == {"$300,000", "$450K"}

extract_price_range(text) ==
    IF ~Truthy(text) THEN None
    ELSE LET prices == SelectSeq(text, LAMBDA p : p \in PriceTokens)
         IN  IF prices = <<>> THEN None
             ELSE IF Len(prices) = 1 THEN <<"From ", prices[1]>>
             ELSE <<prices[1], "-", prices[2]>>

parse_amenities(amenity_text) ==
    [i \in 1..Len(amenity_text) |->
        [name |-> clean_text(amenity_text[i]),
         description |-> clean_text(amenity_text[i]),
         icon_url |-> None]]

parse_nearby_places == <<>>

parse_collections ==
    <<[name |-> "Estates at Estrella Crossing", id |-> "0", isActive |-> TRUE,
       nearbySchools |-> <<>>]>>

\* [h[field] for h in items if h.get(field)]
Picked(items, field) ==
    SelectSeq([i \in 1..Len(items) |-> items[i][field]], Truthy)

\* [h["details"] for h in homeplans]
DetailsOf(plans) == [i \in 1..Len(plans) |-> plans[i].details]

EmptyRecord == [k \in {} |-> k]

\* The record with the keys set before the first readiness wait
StubRecord(url) ==
    [timestamp |-> "now", url |-> url, builder |-> "Ashton Woods", status |-> None]

\* The first truthy image_url among the items, as a list of at most one
FirstImage(items) ==
    IF Picked(items, "image_url") = <<>> THEN <<>>
    ELSE <<Picked(items, "image_url")[1]>>

\* data["details"] and the keys after it are set only when neither
\* data["price_from"] (KeyError) nor a float() (ValueError) raised
community_record(page, url, address_info, plans, sites) ==
    LET carousel == IF Truthy(page.carousel) THEN <<page.carousel>> ELSE <<>>
        from_plans == FirstImage(DetailsOf(plans))
        from_sites == FirstImage(sites.homesites)
        images == IF carousel # <<>> THEN carousel
                  ELSE IF from_plans # <<>> THEN from_plans
                  ELSE from_sites
        parsed ==
            StubRecord(url)
            @@ [name |-> clean_text(page.h1_text)]
            @@ (IF page.price_text # None
                THEN [price_from |-> extract_price_range(page.price_text)]
                ELSE EmptyRecord)
            @@ [address |-> address_info.full_address,
                location |-> [latitude |-> FallbackLat,
                              longitude |-> FallbackLon,
                              address |-> [city |-> address_info.city,
                                           state |-> address_info.state,
                                           market |-> address_info.market]],
                phone |-> clean_text(page.phone),
                description |-> None,
                images |-> images,
                homeplans |-> plans,
                homesites |-> sites.homesites]
        site_sqft == Picked(sites.homesites, "sqft")
        site_beds == Picked(sites.homesites, "beds")
        site_baths == Picked(sites.homesites, "baths")
        sqft_values == IF site_sqft # <<>> THEN site_sqft
                       ELSE Picked(DetailsOf(plans), "sqft")
        bed_values == IF site_beds # <<>> THEN site_beds
                      ELSE Picked(DetailsOf(plans), "beds")
        plan_baths == Picked(DetailsOf(plans), "baths")
        bath_values == IF site_baths # <<>> THEN site_baths ELSE plan_baths
        bath_raises ==
            \/ \E i \in 1..Len(site_baths) : ~Convertible(site_baths[i])
            \/ site_baths = <<>> /\ \E i \in 1..Len(plan_baths) : ~Convertible(plan_baths[i])
        sqft_range == get_range_from_values(sqft_values)
        bed_range == get_range_from_values(bed_values)
        bath_range == get_range_from_values(bath_values)
        raised ==
            \/ bath_raises
            \/ page.price_text = None
            \/ ValueError \in {sqft_range, bed_range, bath_range}
    IN  [calls |-> sites.calls,
         data |->
            IF raised THEN parsed
            ELSE parsed
                 @@ [details |-> [price_range |-> parsed.price_from,
                                  sqft_range |-> sqft_range,
                                  bed_range |-> bed_range,
                                  bath_range |-> bath_range,
                                  stories_range |-> "1 - 2",
                                  community_count |-> 1],
                     amenities |-> parse_amenities(page.amenities),
                     nearbyplaces |-> parse_nearby_places,
                     collections |-> parse_collections]]

\* The wait for the h1 raises and data is returned as it stands, or the
\* page is parsed (each of the three parsers is run once)
parse_community_data(page, url) ==
    IF ~page.h1_again THEN [data |-> StubRecord(url), calls |-> <<>>]
    ELSE CHOOSE r \in {community_record(page, url, address_info, plans, sites) :
                           address_info \in {parse_address(page.address)},
                           plans \in {parse_homeplans(page.plans)},
                           sites \in {parse_homesites(page.homes)}} : TRUE

---------------------------------------------------------------------------
(* process_community_url and main *)

UrlA == Base \o <<"/", "phoenix", "/", "estrella">>
DefaultUrl == UrlA \o <<"?", "comm=PHO|MCESCR", "#", "quick-move-ins">>
UrlB == Base \o <<"/", "phoenix", "/", "harvest">>
Urls == {UrlA, DefaultUrl, UrlB}

\* url.split('/')[-2] if url.split('/')[-1].startswith('#') else
\* url.split('/')[-1], then .split('?')[0]
community_name(url) ==
    LET parts == SplitOn(url, "/")
        last == Last(parts)
        name == IF last # <<>> /\ Head(last) = "#" THEN parts[Len(parts) - 1] ELSE last
    IN  SplitOn(name, "?")[1]

Names == {community_name(u) : u \in Urls}

Missing == [missing |-> TRUE]
OldRecord == [timestamp |-> "earlier", builder |-> "Ashton Woods"]

\* Never finds the record file
exists_never(files, name) == FALSE

\* os.path.exists(output_file)
exists(files, name) == files[name] # Missing

GoodAddress ==
    [content_div |-> TRUE, sales_office |-> TRUE, sibling |-> TRUE,
     address_parts |-> <<Street, <<"L", ",", " ", "A", "Z", " ", "8", "5">> >>]
BadAddress ==
    [content_div |-> TRUE, sales_office |-> TRUE, sibling |-> TRUE,
     address_parts |-> <<Street, <<"L", " ", "A", "Z">> >>]

GoodPlan ==
    [title |-> "a", text |-> <<"J">>, href |-> <<"/", "plan", "-", "jade">>,
     image |-> ImgSite,
     features |-> <<Li("Beds", <<"4">>, FALSE), Li("Baths", <<"3">>, FALSE),
                    Li("sq. ft.", <<"2", ",", "2", "0", "0">>, FALSE)>>]

HomeWith(features) ==
    [title |-> "a", text |-> <<"J">>, href |-> LongSlug,
     detail |-> [nav_ok |-> TRUE, present |-> {Markers[1]},
                 elems |-> <<Elem(TRUE, ImgSite, None, None)>>],
     geo |-> [kind |-> "found", lat |-> <<"33.4">>, lon |-> <<"-112.2">>],
     features |-> features]

GoodHome ==
    HomeWith(<<Li("Beds", <<"3">>, FALSE), Li("Baths", <<"2">>, TRUE),
               Li("sq. ft.", <<"1", ",", "8", "0", "0">>, FALSE)>>)
OddHome ==
    HomeWith(<<Li("Beds", <<"3", "-", "4">>, FALSE), Li("Baths", <<"2">>, FALSE)>>)

\* A card that shows its beds only
BedsOnlyHome == HomeWith(<<Li("Beds", <<"3">>, FALSE)>>)

PriceText == <<"Plans from ", "$300,000">>

\* What the browser serves for a community URL: whether the h1 appears for
\* the wait of process_community_url and again for the wait of
\* parse_community_data, and the parts of the rendered page
Page(again, price, address, homes) ==
    [h1 |-> TRUE, h1_again |-> again, h1_text |-> <<"E">>, price_text |-> price,
     address |-> address, phone |-> None, carousel |-> None,
     plans |-> <<GoodPlan>>, homes |-> homes, amenities |-> << <<"R", "V">> >>]

NoPage ==
    [h1 |-> FALSE, h1_again |-> FALSE, h1_text |-> <<>>, price_text |-> None,
     address |-> NoAddrSoup, phone |-> None, carousel |-> None,
     plans |-> <<>>, homes |-> <<>>, amenities |-> <<>>]

CommunityPages ==
    {NoPage, Page(FALSE, PriceText, GoodAddress, <<>>)}
    \cup {Page(TRUE, p, a, h) :
              p \in {None, PriceText}, a \in {GoodAddress, BadAddress},
              h \in {<<>>, <<GoodHome>>, <<OddHome>>, <<BedsOnlyHome>>}}

\* The first failure ends the batch
stop_after_error(position, urls) == Len(urls) + 1

\* except Exception: logged, process_community_url returns and the caller
\* goes on with the URL after this one
resume_after_error(position, urls) == position + 1

GetCalls(calls) == Cardinality({i \in 1..Len(calls) : calls[i].call = "get"})

---------------------------------------------------------------------------
(* Specifications: one per function under check *)

NoImages == [images |-> <<>>, calls |-> <<>>]

IdleAddr  == addrIn = NoAddrSoup /\ addrOut = default_address
IdleRange == rangeIn = <<>> /\ rangeOut = None
IdleImg   == detail = NoDetail /\ imgOut = NoImages
IdleCards ==
    /\ cards = [plans |-> <<>>, homes |-> <<>>]
    /\ homeplans = <<>>
    /\ homesites = <<>>
    /\ trace = <<>>

IdleText == textIn = None /\ textOut = None

IdleMain ==
    /\ args = [mode |-> "default", url |-> DefaultUrl, links |-> "missing", urls |-> <<>>]
    /\ driver = "unbound"
    /\ todo = <<>>
    /\ next = 1
    /\ json_files = [n \in Names |-> Missing]
    /\ html_files = [n \in Names |-> Missing]
    /\ loads = 0
    /\ served = NoPage
    /\ runs = <<>>

InitAddr ==
    /\ pc = "call"
    /\ addrIn \in AddrSoups
    /\ addrOut = default_address
    /\ IdleRange /\ IdleImg /\ IdleCards /\ IdleMain /\ IdleText

CallParseAddress ==
    /\ pc = "call"
    /\ addrOut' = parse_address(addrIn)
    /\ pc' = "done"
    /\ UNCHANGED <<addrIn, rangeVars, imgVars, cardVars, mainVars, textVars>>

NextAddr == CallParseAddress

SpecAddr == InitAddr /\ [][NextAddr]_vars

InitRange ==
    /\ pc = "call"
    /\ rangeIn \in RangeInputs
    /\ rangeOut = None
    /\ IdleAddr /\ IdleImg /\ IdleCards /\ IdleMain /\ IdleText

CallGetRange ==
    /\ pc = "call"
    /\ rangeOut' = get_range_from_values(rangeIn)
    /\ pc' = "done"
    /\ UNCHANGED <<rangeIn, addrVars, imgVars, cardVars, mainVars, textVars>>

NextRange == CallGetRange

SpecRange == InitRange /\ [][NextRange]_vars

InitImg ==
    /\ pc = "call"
    /\ detail \in DetailPages
    /\ imgOut = NoImages
    /\ IdleAddr /\ IdleRange /\ IdleCards /\ IdleMain /\ IdleText

CallGetHomesiteImages ==
    /\ pc = "call"
    /\ imgOut' = get_homesite_images(detail)
    /\ pc' = "done"
    /\ UNCHANGED <<detail, addrVars, rangeVars, cardVars, mainVars, textVars>>

NextImg == CallGetHomesiteImages

SpecImg == InitImg /\ [][NextImg]_vars

InitCards ==
    /\ pc = "plans"
    /\ cards \in {[plans |-> p, homes |-> <<>>] : p \in CardLists(PlanCards)}
                 \cup {[plans |-> <<>>, homes |-> h] : h \in CardLists(HomeCards)}
    /\ homeplans = <<>>
    /\ homesites = <<>>
    /\ trace = <<>>
    /\ IdleAddr /\ IdleRange /\ IdleImg /\ IdleMain /\ IdleText

CallParseHomeplans ==
    /\ pc = "plans"
    /\ homeplans' = parse_homeplans(cards.plans)
    /\ pc' = "homes"
    /\ UNCHANGED <<cards, homesites, trace, addrVars, rangeVars, imgVars, mainVars, textVars>>

CallParseHomesites ==
    /\ pc = "homes"
    /\ homesites' = parse_homesites(cards.homes).homesites
    /\ trace' = parse_homesites(cards.homes).calls
    /\ pc' = "done"
    /\ UNCHANGED <<cards, homeplans, addrVars, rangeVars, imgVars, mainVars, textVars>>

NextCards == CallParseHomeplans \/ CallParseHomesites

SpecCards == InitCards /\ [][NextCards]_vars

InitText ==
    /\ pc = "call"
    /\ textIn \in CleanInputs
    /\ textOut = None
    /\ IdleAddr /\ IdleRange /\ IdleImg /\ IdleCards /\ IdleMain

CallCleanText ==
    /\ pc = "call"
    /\ textOut' = clean_text(textIn)
    /\ pc' = "done"
    /\ UNCHANGED <<textIn, addrVars, rangeVars, imgVars, cardVars, mainVars>>

NextText == CallCleanText

SpecText == InitText /\ [][NextText]_vars

---------------------------------------------------------------------------
(* The program: main, with process_community_url as one step per URL *)

UrlLists == UNION {[1..n -> Urls] : n \in 0..MaxUrls}

Init ==
    /\ pc = "setup"
    /\ args \in {[mode |-> "url", url |-> u, links |-> "missing", urls |-> <<>>] :
                     u \in Urls}
                \cup {[mode |-> "default", url |-> DefaultUrl, links |-> "missing",
                       urls |-> <<>>]}
                \cup {[mode |-> "batch", url |-> DefaultUrl, links |-> l, urls |-> <<>>] :
                          l \in {"missing", "unreadable"}}
                \cup {[mode |-> "batch", url |-> DefaultUrl, links |-> "ok", urls |-> us] :
                          us \in UrlLists}
    /\ driver = "unbound"
    /\ todo = <<>>
    /\ next = 1
    /\ json_files \in [Names -> {Missing, OldRecord}]
    /\ html_files = [n \in Names |-> Missing]
    /\ loads = 0
    /\ served = NoPage
    /\ runs = <<>>
    /\ IdleAddr /\ IdleRange /\ IdleImg /\ IdleCards /\ IdleText

others == <<addrVars, rangeVars, imgVars, cardVars, textVars>>

\* driver = setup_driver(): the browser starts, or webdriver.Chrome raises
SetupDriver ==
    /\ pc = "setup"
    /\ \E started \in BOOLEAN :
          /\ driver' = IF started THEN "up" ELSE "unbound"
          /\ pc' = IF started THEN "dispatch" ELSE "finally"
    /\ UNCHANGED <<args, todo, next, json_files, html_files, loads, served, runs, others>>

\* if args.url: process_community_url(driver, args.url)
StartUrl ==
    /\ pc = "dispatch"
    /\ args.mode = "url"
    /\ todo' = <<args.url>>
    /\ pc' = "loop"
    /\ UNCHANGED <<args, driver, next, json_files, html_files, loads, served, runs, others>>

\* elif args.batch: the links file is missing (return), cannot be read
\* (logged) or gives the list of URLs
StartBatch ==
    /\ pc = "dispatch"
    /\ args.mode = "batch"
    /\ todo' = IF args.links = "ok" THEN args.urls ELSE <<>>
    /\ pc' = IF args.links = "ok" THEN "loop" ELSE "finally"
    /\ UNCHANGED <<args, driver, next, json_files, html_files, loads, served, runs, others>>

\* else: process_community_url(driver, default_url)
StartDefault ==
    /\ pc = "dispatch"
    /\ args.mode = "default"
    /\ todo' = <<DefaultUrl>>
    /\ pc' = "loop"
    /\ UNCHANGED <<args, driver, next, json_files, html_files, loads, served, runs, others>>

Run(url, outcome) == [url |-> url, outcome |-> outcome]

\* process_community_url: the record file exists
ProcessSkip ==
    /\ pc = "loop"
    /\ next <= Len(todo)
    /\ exists(json_files, community_name(todo[next]))
    /\ runs' = Append(runs, Run(todo[next], "skipped"))
    /\ next' = next + 1
    /\ UNCHANGED <<pc, args, driver, todo, json_files, html_files, loads, served, others>>

\* process_community_url: driver.get or the wait for the h1 raises
ProcessLoadFails ==
    /\ pc = "loop"
    /\ next <= Len(todo)
    /\ ~exists(json_files, community_name(todo[next]))
    /\ loads' = loads + 1
    /\ served' = NoPage
    /\ runs' = Append(runs, Run(todo[next], "load_failed"))
    /\ next' = resume_after_error(next, todo)
    /\ UNCHANGED <<pc, args, driver, todo, json_files, html_files, others>>

\* process_community_url: the page loads, its markup is saved, it is parsed
\* and the record is saved
ProcessPage ==
    /\ pc = "loop"
    /\ next <= Len(todo)
    /\ ~exists(json_files, community_name(todo[next]))
    /\ \E page \in CommunityPages \ {NoPage} :
        \E parsed \in {parse_community_data(page, todo[next])} :
          LET url == todo[next]
              name == community_name(url)
          IN  /\ html_files' = [html_files EXCEPT ![name] = [page_source |-> url]]
              /\ json_files' = [json_files EXCEPT ![name] = parsed.data]
              /\ loads' = loads + 1 + GetCalls(parsed.calls)
              /\ served' = page
              /\ runs' = Append(runs, Run(url, "written"))
    /\ next' = next + 1
    /\ UNCHANGED <<pc, args, driver, todo, others>>

\* The URLs are used up
LoopEnds ==
    /\ pc = "loop"
    /\ next > Len(todo)
    /\ pc' = "finally"
    /\ UNCHANGED <<args, driver, todo, next, json_files, html_files, loads, served, runs, others>>

\* finally: driver.quit()
QuitDriver ==
    /\ pc = "finally"
    /\ driver = "up"
    /\ driver' = "quit"
    /\ pc' = "exit"
    /\ UNCHANGED <<args, todo, next, json_files, html_files, loads, served, runs, others>>

\* finally: driver.quit() with driver never assigned: UnboundLocalError
QuitUnbound ==
    /\ pc = "finally"
    /\ driver = "unbound"
    /\ pc' = "raised"
    /\ UNCHANGED <<args, driver, todo, next, json_files, html_files, loads, served, runs, others>>

Next ==
    \/ SetupDriver
    \/ StartUrl
    \/ StartBatch
    \/ StartDefault
    \/ ProcessSkip
    \/ ProcessLoadFails
    \/ ProcessPage
    \/ LoopEnds
    \/ QuitDriver
    \/ QuitUnbound

Spec == Init /\ [][Next]_vars

---------------------------------------------------------------------------
(* Claims about parse_address *)

NumCommas(l) == Cardinality({i \in 1..Len(l) : l[i] = ","})

\* The text between the first comma of l and its second comma (or its end)
StateZipPart(l) ==
    LET commas == {i \in 1..Len(l) : l[i] = ","}
        c1 == CHOOSE i \in commas : \A j \in commas : i <= j
        later == {i \in commas : i > c1} \cup {Len(l) + 1}
        c2 == CHOOSE i \in later : \A j \in later : i <= j
    IN  SubSeq(l, c1 + 1, c2 - 1)

\* Number of maximal runs of non-whitespace characters
TokenCount(s) ==
    Cardinality({i \in 1..Len(s) :
                   s[i] \notin Whitespace /\ (i = 1 \/ s[i - 1] \in Whitespace)})

LabelFound(soup) == soup.content_div /\ soup.sales_office /\ soup.sibling

ShapeAtLeast(soup) ==
    /\ LabelFound(soup)
    /\ Len(soup.address_parts) >= 2
    /\ NumCommas(soup.address_parts[2]) >= 1
    /\ TokenCount(StateZipPart(soup.address_parts[2])) >= 2

ShapeExactly(soup) ==
    /\ LabelFound(soup)
    /\ Len(soup.address_parts) >= 2
    /\ NumCommas(soup.address_parts[2]) = 1
    /\ TokenCount(StateZipPart(soup.address_parts[2])) = 2

IsPrefix(p, s) == Len(p) <= Len(s) /\ SubSeq(s, 1, Len(p)) = p

\* C10 (as amended): parse_address returns a filled address (street, city,
\* state and zip joined into full_address, the state set, the fixed market)
\* exactly when the Sales Office label is followed by a block of at least 2
\* lines whose second line has at least 2 comma-separated parts and whose
\* second part has at least 2 whitespace-separated tokens; in every other
\* case it returns the all-empty address with the fixed market.
C10_AddressFilledOrAllEmpty ==
    pc = "done" =>
        IF ShapeAtLeast(addrIn)
        THEN /\ addrOut.state # <<>>
             /\ addrOut.market = Market
             /\ IsPrefix(addrIn.address_parts[1] \o <<",", " ">> \o addrOut.city
                         \o <<",", " ">> \o addrOut.state \o <<" ">>,
                         addrOut.full_address)
             /\ Len(addrOut.full_address) >
                    Len(addrIn.address_parts[1]) + Len(addrOut.city)
                    + Len(addrOut.state) + 5
        ELSE addrOut = default_address

\* C10 witness: a second line with three comma-separated parts was parsed
\* into a filled address
C10_Witness ==
    /\ pc = "done"
    /\ LabelFound(addrIn)
    /\ Len(addrIn.address_parts) >= 2
    /\ NumCommas(addrIn.address_parts[2]) = 2
    /\ addrOut.full_address # <<>>

\* C10 (as stated): a filled address is returned only when the second line
\* has exactly 2 comma-separated parts and its state+zip part exactly 2 tokens
C10_ExactlyTwoParts ==
    pc = "done" => (ShapeExactly(addrIn) <=> addrOut # default_address)

---------------------------------------------------------------------------
(* Claims about get_range_from_values *)

\* A value in tenths, written with its decimal when it has one
Render(tenths) ==
    IF tenths % 10 = 0 THEN IntToText(tenths \div 10)
    ELSE IntToText(tenths \div 10) \o <<".", Digits[(tenths % 10) + 1]>>

ClaimedRange(values) ==
    LET kept == SelectSeq(values, LAMBDA v : v # None /\ Convertible(v))
    IN  IF kept = <<>> THEN None
        ELSE LET nums == MapTenths(kept)
             IN  IF SeqMin(nums) = SeqMax(nums) THEN Render(SeqMin(nums))
                 ELSE Render(SeqMin(nums)) \o <<" ", "-", " ">> \o Render(SeqMax(nums))

\* C9: get_range_from_values drops the values that do not convert to a
\* number, returns None when nothing remains and otherwise "{min}" or
\* "{min} - {max}" of the true minimum and maximum of the values
C9_RangeIsTrueMinMax ==
    pc = "done" => rangeOut = ClaimedRange(rangeIn)
---------------------------------------------------------------------------
(* Claims about get_homesite_images *)

NoRepeat(s) == \A i, j \in 1..Len(s) : s[i] = s[j] => i = j

HostAllowed(url) ==
    Contains(HostOf(url), "ashtonwoods.com") \/ Contains(HostOf(url), "widen.net")

HostDenied(url) ==
    Contains(HostOf(url), "bizible.com") \/ Contains(HostOf(url), "marvel-b1-cdn")

\* C7: the list returned by get_homesite_images holds no URL twice, at most
\* 12 entries, no URL of a denylisted tracking domain and only URLs whose
\* host is one of the two allowed domains
C7_ImagesOnlyAllowedDomains ==
    pc = "done" =>
        /\ NoRepeat(imgOut.images)
        /\ Len(imgOut.images) <= MaxImages
        /\ \A i \in 1..Len(imgOut.images) :
               ~HostDenied(imgOut.images[i]) /\ HostAllowed(imgOut.images[i])

---------------------------------------------------------------------------
(* Claims about parse_homeplans and parse_homesites *)

FeaturesRaise(items) ==
    \E i \in 1..Len(items) :
        \/ items[i].kind = "empty"
        \/ items[i].kind = "Baths" /\ items[i].first = <<>>

HasVisibleText(t) == \E i \in 1..Len(t) : t[i] \notin Whitespace

\* Number of "-" in the part of the href after its last "/"
SlugHyphens(href) ==
    LET slashes == {i \in 1..Len(href) : href[i] = "/"} \cup {0}
        last == CHOOSE i \in slashes : \A j \in slashes : j <= i
    IN  Cardinality({i \in (last + 1)..Len(href) : href[i] = "-"})

\* The card parses without raising and resolves both name and url
PlanResolves(c) ==
    c.title = "a" /\ HasVisibleText(c.text) /\ ~FeaturesRaise(c.features)

HomeResolves(c) ==
    c.title = "a" /\ SlugHyphens(c.href) >= 3 /\ ~FeaturesRaise(c.features)

IdsOf(s) == {s[i].id : i \in 1..Len(s)}

\* The emitted homesite that came from the i-th card
SiteOf(i) ==
    CHOOSE h \in {homesites[k] : k \in 1..Len(homesites)} : h.id = IntToText(i)

Emitted(i) == IntToText(i) \in IdsOf(homesites)

\* C5: every entry of the lists returned by parse_homeplans and
\* parse_homesites has a non-empty name and a non-empty url; a card whose
\* name or url did not resolve, or whose parsing raised, is not in the list,
\* and every card that did resolve is, whatever cards came before it.
C5_OnlyResolvedCardsEmitted ==
    pc = "done" =>
        /\ \A k \in 1..Len(homeplans) :
               Truthy(homeplans[k].name) /\ Truthy(homeplans[k].url)
        /\ \A k \in 1..Len(homesites) :
               Truthy(homesites[k].name) /\ Truthy(homesites[k].url)
        /\ Len(homeplans) = Cardinality({i \in 1..Len(cards.plans) : PlanResolves(cards.plans[i])})
        /\ Len(homesites) = Cardinality({i \in 1..Len(cards.homes) : HomeResolves(cards.homes[i])})
        /\ \A i \in 1..Len(cards.homes) : Emitted(i) <=> HomeResolves(cards.homes[i])

\* C5 witness: a plan card without a name was left out and the card after it
\* was emitted
C5_Witness ==
    /\ pc = "done"
    /\ Len(cards.plans) = 2
    /\ cards.plans[1].title = "a" /\ cards.plans[1].text = <<" ">>
    /\ ~FeaturesRaise(cards.plans[1].features)
    /\ Len(homeplans) = 1

\* C6: every emitted homesite has non-null latitude and longitude: the
\* geocoder's result when the lookup succeeded, the fixed fallback
\* coordinates when it returned nothing, timed out or failed
C6_CoordinatesFromGeocoderOrFallback ==
    pc = "done" =>
        \A i \in 1..Len(cards.homes) :
            Emitted(i) =>
                /\ SiteOf(i).latitude # None
                /\ SiteOf(i).longitude # None
                /\ IF cards.homes[i].geo.kind = "found"
                   THEN /\ SiteOf(i).latitude = cards.homes[i].geo.lat
                        /\ SiteOf(i).longitude = cards.homes[i].geo.lon
                   ELSE /\ SiteOf(i).latitude = FallbackLat
                        /\ SiteOf(i).longitude = FallbackLon

\* The readiness waits parse_homesites made for the i-th card, in order
WaitsOf(i) ==
    LET mine == SelectSeq(trace, LAMBDA e : e.card = i /\ e.call \in
                                               {Markers[k] : k \in 1..3})
    IN  [k \in 1..Len(mine) |-> mine[k].call]

Navigated(i) == \E k \in 1..Len(trace) : trace[k] = [card |-> i, call |-> "get"]

ImagesFailed(c) == ~c.detail.nav_ok \/ c.detail.present = {}

\* C8: for every homesite card with a link the detail page is loaded and the
\* three markers are awaited in the fixed order, each only after the one
\* before timed out; when navigation fails or all three time out, the card is
\* still emitted when its name resolves, with no images and no image_url.
C8_WaitOrderAndEmptyImagesKept ==
    pc = "done" =>
        \A i \in 1..Len(cards.homes) :
            LET c == cards.homes[i]
                w == WaitsOf(i)
            IN  c.title = "a" =>
                  /\ Navigated(i)
                  /\ Len(w) <= 3
                  /\ w = SubSeq(Markers, 1, Len(w))
                  /\ \A k \in 1..(Len(w) - 1) : w[k] \notin c.detail.present
                  /\ c.detail.nav_ok => Len(w) >= 1
                  /\ ~c.detail.nav_ok => w = <<>>
                  /\ (w # <<>> /\ Len(w) < 3) => w[Len(w)] \in c.detail.present
                  /\ (ImagesFailed(c) /\ HomeResolves(c)) =>
                        /\ Emitted(i)
                        /\ SiteOf(i).images = <<>>
                        /\ SiteOf(i).image_url = None

\* C8 witness: all three waits of the first card timed out, its homesite was
\* emitted without images, and the second card was processed
C8_Witness ==
    /\ pc = "done"
    /\ Len(cards.homes) = 2
    /\ cards.homes[1].title = "a"
    /\ cards.homes[1].detail.nav_ok /\ cards.homes[1].detail.present = {}
    /\ WaitsOf(1) = Markers
    /\ Emitted(1) /\ SiteOf(1).images = <<>>
    /\ Navigated(2) /\ Emitted(2)

\* C11: in the list returned by parse_homesites the k-th homesite has id k:
\* the ids are "1", "2", ..., "n" with no gaps and no repeats
C11_IdsSequentialWithoutGaps ==
    pc = "done" =>
        \A k \in 1..Len(homesites) : homesites[k].id = IntToText(k)

\* The calls of the trace that get_coordinates made, in order
GeoCalls == SelectSeq(trace, LAMBDA c : c.call \in {"geocode", "sleep"})

\* C12: every geocoding lookup is followed by the rate-limiting delay before
\* get_coordinates returns, whatever the lookup's outcome, so that no two
\* lookups happen without a delay between them
C12_DelayAfterEveryLookup ==
    pc = "done" =>
        \A i \in 1..Len(GeoCalls) :
            GeoCalls[i].call = "geocode"
                => /\ i < Len(GeoCalls)
                   /\ GeoCalls[i + 1].call = "sleep"
                   /\ GeoCalls[i + 1].card = GeoCalls[i].card

---------------------------------------------------------------------------
(* Claims about clean_text *)

\* No whitespace at either end, no "\n", and no two spaces in a row
Normalized(t) ==
    /\ t # <<>>
    /\ t[1] \notin Whitespace /\ t[Len(t)] \notin Whitespace
    /\ \A i \in 1..Len(t) : t[i] # "\n"
    /\ \A i \in 1..(Len(t) - 1) : ~(t[i] = " " /\ t[i + 1] = " ")

\* C13: clean_text never returns an empty text: it returns None for a
\* missing or empty text and for a text of nothing but whitespace, and
\* otherwise a non-empty text with no whitespace at its ends and every
\* whitespace run inside it collapsed to one space
C13_NeverEmptyText ==
    pc = "done" =>
        /\ textOut # <<>>
        /\ IF textIn = None \/ ~HasVisibleText(textIn)
           THEN textOut = None
           ELSE textOut # None /\ Normalized(textOut)

---------------------------------------------------------------------------
(* Claims about process_community_url and main *)

NameOfRun(i) == community_name(runs[i].url)

\* process_community_url is about to be called for a URL whose record exists
SkipCalled ==
    /\ pc = "loop"
    /\ next <= Len(todo)
    /\ json_files[community_name(todo[next])] # Missing

\* C1: a call of process_community_url for a URL whose record file exists
\* loads no page, writes no markup snapshot and leaves the record file as it
\* is; a record file, once there, is never changed, so it holds what the
\* first successful run for it wrote.
C1_ExistingRecordSkipped ==
    /\ [](\A i, j \in 1..Len(runs) :
              (i < j /\ runs[i].outcome = "written" /\ NameOfRun(i) = NameOfRun(j))
                  => /\ runs[j].outcome = "skipped"
                     /\ json_files[NameOfRun(i)].url = runs[i].url)
    /\ [][/\ SkipCalled =>
                /\ json_files' = json_files
                /\ html_files' = html_files
                /\ loads' = loads
          /\ \A n \in Names : json_files[n] # Missing => json_files'[n] = json_files[n]
         ]_vars

\* C1 witness: a run wrote the record and a later run for the same community
\* was skipped
C1_Witness ==
    \E i, j \in 1..Len(runs) :
        /\ i < j
        /\ runs[i].outcome = "written"
        /\ runs[j].outcome = "skipped"
        /\ NameOfRun(i) = NameOfRun(j)
        /\ json_files[NameOfRun(i)].url = runs[i].url

\* C2: the URLs are processed one at a time in list order; a page-load
\* failure in process_community_url writes no record and no snapshot, and
\* the URLs after it are still processed.
C2_LoadFailureSkipsOnlyThatUrl ==
    /\ [](/\ Len(runs) <= Len(todo)
          /\ \A i \in 1..Len(runs) : runs[i].url = todo[i]
          /\ pc \in {"finally", "exit", "raised"} => Len(runs) = Len(todo))
    /\ [][(/\ Len(runs') = Len(runs) + 1
           /\ runs'[Len(runs')].outcome = "load_failed")
              => /\ json_files' = json_files
                 /\ html_files' = html_files
                 /\ next' = next + 1
         ]_vars

\* C2 witness: in batch mode the first URL failed to load, nothing was
\* written for it, and the second URL was processed and written
C2_Witness ==
    /\ args.mode = "batch"
    /\ Len(runs) = 2
    /\ runs[1].outcome = "load_failed"
    /\ runs[2].outcome = "written"
    /\ json_files[NameOfRun(1)] = Missing
    /\ json_files[NameOfRun(2)] # Missing

\* The page lacks the 'Plans from $' text, or a bed token is not a number
FieldFailure(page) == page.price_text = None \/ page.homes = <<OddHome>>

\* C3: when one field cannot be extracted, the record is still written and
\* holds the fields extracted after it: details with stories_range "1 - 2"
\* and community_count 1, amenities, nearbyplaces = [] and the placeholder
\* collections
C3_LaterFieldsStillPresent ==
    (/\ runs # <<>>
     /\ Last(runs).outcome = "written"
     /\ served.h1_again
     /\ FieldFailure(served))
        => LET data == json_files[community_name(Last(runs).url)]
           IN  /\ {"details", "amenities", "nearbyplaces", "collections"}
                      \subseteq DOMAIN data
               /\ data.details.stories_range = "1 - 2"
               /\ data.details.community_count = 1
               /\ data.nearbyplaces = <<>>
               /\ data.collections = parse_collections

\* C4: every record written by process_community_url has the keys address
\* and location, the location with the fixed coordinates and the market
C4_AddressAndLocationAlwaysPresent ==
    \A n \in Names :
        json_files[n] \notin {Missing, OldRecord}
            => /\ {"address", "location"} \subseteq DOMAIN json_files[n]
               /\ json_files[n].location.latitude = FallbackLat
               /\ json_files[n].location.longitude = FallbackLon
               /\ json_files[n].location.address.market = Market

\* The range of a field over the homesites, and over the homeplans
FromSites(data, field) == get_range_from_values(Picked(data.homesites, field))
FromPlans(data, field) == get_range_from_values(Picked(DetailsOf(data.homeplans), field))

\* The homesites supply a value of sqft, beds or baths
SitesSupply(data) ==
    \E f \in {"sqft", "beds", "baths"} : Picked(data.homesites, f) # <<>>

\* C14: sqft_range, bed_range and bath_range of a record's details are all
\* three computed from the homesites when the homesites supply any value of
\* sqft, beds or baths, and all three from the homeplans only when the
\* homesites supply none: a summary never mixes the two sources
C14_DetailsFromOneSource ==
    \A n \in Names :
        (json_files[n] \notin {Missing, OldRecord} /\ "details" \in DOMAIN json_files[n])
            => LET data == json_files[n]
               IN  IF SitesSupply(data)
                   THEN /\ data.details.sqft_range = FromSites(data, "sqft")
                        /\ data.details.bed_range = FromSites(data, "beds")
                        /\ data.details.bath_range = FromSites(data, "baths")
                   ELSE /\ data.details.sqft_range = FromPlans(data, "sqft")
                        /\ data.details.bed_range = FromPlans(data, "beds")
                        /\ data.details.bath_range = FromPlans(data, "baths")

\* C15: on every path of main the browser session, when it was launched, is
\* quit once, in the finally clause and after the last call of
\* process_community_url; nothing is loaded or processed after the quit;
\* and the finally clause never raises, also when the browser did not launch
C15_SessionQuitOnceCleanupNeverRaises ==
    /\ [](pc # "raised")
    /\ [](pc = "exit" => driver = "quit" /\ Len(runs) = Len(todo))
    /\ [][/\ driver = "quit" => (driver' = "quit" /\ loads' = loads /\ runs' = runs)
          /\ (driver # "quit" /\ driver' = "quit") => (driver = "up" /\ pc = "finally")
         ]_vars

=============================================================================
